---- MODULE Spec2Model ----
(***************************************************************************)
(* Model of the streaming chat page (ChatPage) of the graphrag_agent web   *)
(* client: handleSubmit's request / read loop / line handling, and the     *)
(* conversation load effect.  Text is modelled as sequences of one         *)
(* character strings, transport chunks as sequences of ASCII byte codes.   *)
(***************************************************************************)
EXTENDS Integers, Sequences, FiniteSets, TLC

(***************************************************************************)
(* Text helpers                                                            *)
(***************************************************************************)

\* The characters the model's streams and inputs are written in, with
\* their ASCII codes (single byte UTF-8).
AsciiTable ==
  ("\n" :> 10) @@ (" " :> 32) @@ ("\"" :> 34) @@ ("," :> 44) @@ ("-" :> 45) @@
  ("0" :> 48) @@ ("1" :> 49) @@ ("2" :> 50) @@ ("3" :> 51) @@ ("4" :> 52) @@
  ("5" :> 53) @@ ("6" :> 54) @@ ("7" :> 55) @@ ("8" :> 56) @@ ("9" :> 57) @@
  (":" :> 58) @@ ("D" :> 68) @@ ("E" :> 69) @@ ("H" :> 72) @@ ("N" :> 78) @@
  ("O" :> 79) @@ ("P" :> 80) @@ ("[" :> 91) @@ ("]" :> 93) @@ ("_" :> 95) @@
  ("a" :> 97) @@ ("b" :> 98) @@ ("c" :> 99) @@ ("d" :> 100) @@ ("e" :> 101) @@
  ("f" :> 102) @@ ("h" :> 104) @@ ("i" :> 105) @@ ("j" :> 106) @@
  ("l" :> 108) @@ ("n" :> 110) @@ ("o" :> 111) @@ ("r" :> 114) @@
  ("s" :> 115) @@ ("t" :> 116) @@ ("u" :> 117) @@ ("v" :> 118) @@
  ("{" :> 123) @@ ("}" :> 125)

Char == DOMAIN AsciiTable

\* TextEncoder on the server side of the transport: text -> bytes.
Utf8Encode(text) == [i \in 1..Len(text) |-> AsciiTable[text[i]]]

\* new TextDecoder().decode(value, {stream: true}) on single byte code
\* points: every byte below 128 is one character.
Utf8Decode(bytes) ==
  [i \in 1..Len(bytes) |-> CHOOSE c \in Char : AsciiTable[c] = bytes[i]]

\* String.prototype.startsWith
StartsWith(s, p) == Len(s) >= Len(p) /\ SubSeq(s, 1, Len(p)) = p

\* String.prototype.slice(n) for 0 <= n
Slice(s, n) == IF n >= Len(s) THEN <<>> ELSE SubSeq(s, n + 1, Len(s))

\* White space removed by String.prototype.trim and skipped by JSON.parse
\* (of the modelled alphabet).
WhiteSpace == {" ", "\n"}

RECURSIVE TrimStart(_)
TrimStart(s) ==
  IF s # <<>> /\ Head(s) \in WhiteSpace THEN TrimStart(Tail(s)) ELSE s

RECURSIVE TrimEnd(_)
TrimEnd(s) ==
  IF s # <<>> /\ s[Len(s)] \in WhiteSpace
  THEN TrimEnd(SubSeq(s, 1, Len(s) - 1)) ELSE s

\* String.prototype.trim
Trim(s) == TrimEnd(TrimStart(s))

\* String.prototype.split("\n"): the pieces between newlines, a trailing
\* newline giving a last empty piece.
RECURSIVE SplitLines(_)
SplitLines(s) ==
  IF \A i \in 1..Len(s) : s[i] # "\n" THEN <<s>>
  ELSE LET k == CHOOSE i \in 1..Len(s) :
                  s[i] = "\n" /\ \A j \in 1..(i - 1) : s[j] # "\n"
       IN <<SubSeq(s, 1, k - 1)>> \o SplitLines(Slice(s, k))

Digits == {"0", "1", "2", "3", "4", "5", "6", "7", "8", "9"}

DigitChar(d) == <<"0", "1", "2", "3", "4", "5", "6", "7", "8", "9">>[d + 1]

\* Number.prototype.toString for a non-negative integer
RECURSIVE NatToString(_)
NatToString(n) ==
  IF n < 10 THEN <<DigitChar(n)>>
  ELSE NatToString(n \div 10) \o <<DigitChar(n % 10)>>

(***************************************************************************)
(* Numbers.  JSON.parse reads a number text as the nearest double and      *)
(* ToString prints the shortest digits that read back as that double.      *)
(* Natural numbers of any size are sequences of limbs in base 10000, the   *)
(* least significant first, <<>> for 0.                                    *)
(***************************************************************************)
Limb == 10000

DigitValue(c) == CHOOSE d \in 0..9 : DigitChar(d) = c

\* a without its leading zero limbs
BigNorm(a) ==
  IF \A i \in 1..Len(a) : a[i] = 0 THEN <<>>
  ELSE SubSeq(a, 1, CHOOSE i \in 1..Len(a) :
                      a[i] # 0 /\ \A j \in (i + 1)..Len(a) : a[j] = 0)

BigLimb(a, i) == IF i <= Len(a) THEN a[i] ELSE 0

\* the highest limb where a and b of the same length differ
BigTopDifference(a, b) ==
  CHOOSE i \in 1..Len(a) : a[i] # b[i] /\ \A j \in (i + 1)..Len(a) : a[j] = b[j]

\* -1, 0 or 1 as a < b, a = b, a > b
BigCmp(a, b) ==
  IF Len(a) # Len(b) THEN (IF Len(a) < Len(b) THEN -1 ELSE 1)
  ELSE IF a = b THEN 0
  ELSE IF a[BigTopDifference(a, b)] < b[BigTopDifference(a, b)] THEN -1
  ELSE 1

\* the carry out of limb i when the limb sums t are added up: some limb
\* at or below i overflows and every limb from there to i passes it on
Carry(t, i) ==
  IF \E j \in 1..i : t[j] >= Limb /\ \A m \in (j + 1)..i : t[m] = Limb - 1
  THEN 1 ELSE 0

\* the number whose n limbs have the sums t
BigCarried(t, n) ==
  BigNorm(SubSeq([i \in 1..(n + 1) |->
                    IF i > n THEN Carry(t, n)
                    ELSE (t[i] + Carry(t, i - 1)) % Limb],
                 1, n + 1))

BigSums(a, b, n) == SubSeq([i \in 1..n |-> BigLimb(a, i) + BigLimb(b, i)], 1, n)

BigAdd(a, b) ==
  IF Len(a) < Len(b) THEN BigCarried(BigSums(a, b, Len(b)), Len(b))
  ELSE BigCarried(BigSums(a, b, Len(a)), Len(a))

\* the borrow out of limb i when the limb differences t are added up
Borrow(t, i) ==
  IF \E j \in 1..i : t[j] < 0 /\ \A m \in (j + 1)..i : t[m] = 0
  THEN 1 ELSE 0

\* the number whose n limbs have the differences t
BigBorrowed(t, n) ==
  BigNorm(SubSeq([i \in 1..n |-> (t[i] - Borrow(t, i - 1) + Limb) % Limb],
                 1, n))

\* a - b for a >= b
BigSub(a, b) ==
  BigBorrowed(SubSeq([i \in 1..Len(a) |-> a[i] - BigLimb(b, i)], 1, Len(a)),
              Len(a))

\* a * m for 0 <= m < Limb
BigMulSmall(a, m) ==
  BigAdd(SubSeq([i \in 1..Len(a) |-> (a[i] * m) % Limb], 1, Len(a)),
         SubSeq([i \in 1..(Len(a) + 1) |->
                   IF i = 1 THEN 0 ELSE (a[i - 1] * m) \div Limb],
                1, Len(a) + 1))

\* a * Limb^k
BigShift(a, k) == IF a = <<>> THEN <<>> ELSE [i \in 1..k |-> 0] \o a

\* a * 10^k
BigTimesPow10(a, k) == BigShift(BigMulSmall(a, 10 ^ (k % 4)), k \div 4)

\* a * 2^k
RECURSIVE BigTimesPow2(_, _)
BigTimesPow2(a, k) ==
  IF a = <<>> \/ k = 0 THEN a
  ELSE IF k >= 104
    THEN BigTimesPow2(
           BigMulSmall(BigMulSmall(BigMulSmall(BigMulSmall(
             BigMulSmall(BigMulSmall(BigMulSmall(BigMulSmall(
               a, 8192), 8192), 8192), 8192), 8192), 8192), 8192), 8192),
           k - 104)
  ELSE IF k >= 13 THEN BigTimesPow2(BigMulSmall(a, 8192), k - 13)
  ELSE BigMulSmall(a, 2 ^ k)

\* the largest q in lo..hi with b * q * Limb^p <= a
RECURSIVE BigQuotientLimb(_, _, _, _, _)
BigQuotientLimb(a, b, p, lo, hi) ==
  IF lo = hi THEN lo
  ELSE IF BigCmp(BigShift(BigMulSmall(b, (lo + hi + 1) \div 2), p), a) <= 0
    THEN BigQuotientLimb(a, b, p, (lo + hi + 1) \div 2, hi)
  ELSE BigQuotientLimb(a, b, p, lo, (lo + hi + 1) \div 2 - 1)

\* long division by b # 0: the quotient limbs p..1 of the remainder rem,
\* before the limbs acc found so far; d is limb p
RECURSIVE BigDivFrom(_, _, _, _)
RECURSIVE BigDivStep(_, _, _, _, _)
BigDivFrom(rem, b, p, acc) ==
  IF p = 0 THEN [q |-> BigNorm(acc), r |-> rem]
  ELSE BigDivStep(rem, b, p, acc, BigQuotientLimb(rem, b, p - 1, 0, Limb - 1))

BigDivStep(rem, b, p, acc, d) ==
  IF d = 0 THEN BigDivFrom(rem, b, p - 1, <<0>> \o acc)
  ELSE BigDivFrom(BigSub(rem, BigShift(BigMulSmall(b, d), p - 1)), b, p - 1,
                  <<d>> \o acc)

BigDivMod(a, b) ==
  BigDivFrom(a, b, IF Len(a) < Len(b) THEN 0 ELSE Len(a) - Len(b) + 1, <<>>)

\* the number of decimal digits of a (0 for 0)
BigDigits(a) ==
  IF a = <<>> THEN 0
  ELSE 4 * (Len(a) - 1) + Len(NatToString(a[Len(a)]))

\* the value of the digit k places left of the last, 0 beyond the first
DigitAt(ds, k) == IF k < Len(ds) THEN DigitValue(ds[Len(ds) - k]) ELSE 0

\* the number written by decimal digit characters: four to a limb
BigFromDigits(ds) ==
  BigNorm(SubSeq([i \in 1..((Len(ds) + 3) \div 4) |->
                    DigitAt(ds, 4 * i - 4) + 10 * DigitAt(ds, 4 * i - 3)
                      + 100 * DigitAt(ds, 4 * i - 2)
                      + 1000 * DigitAt(ds, 4 * i - 1)],
                 1, (Len(ds) + 3) \div 4))

\* 2^52 and 2^53
Pow52 == <<496, 2737, 5996, 4503>>

Pow53 == <<992, 5474, 1992, 9007>>

\* the smallest binary exponent of a double
MinExponent == -1074

\* a/b over 2^e as a fraction
Scaled(a, b, e) ==
  [num |-> IF e < 0 THEN BigTimesPow2(a, -e) ELSE a,
   den |-> IF e > 0 THEN BigTimesPow2(b, e) ELSE b]

QuotientOf(sc) == BigDivMod(sc.num, sc.den).q

\* the exponent e with 2^52 <= a/b / 2^e < 2^53, or MinExponent; q is
\* the whole part of a/b / 2^e
RECURSIVE FindExponent(_, _, _)
RECURSIVE AdjustExponent(_, _, _, _)
FindExponent(a, b, e) == AdjustExponent(a, b, e, QuotientOf(Scaled(a, b, e)))

AdjustExponent(a, b, e, q) ==
  IF BigCmp(q, Pow53) >= 0 THEN FindExponent(a, b, e + 1)
  ELSE IF BigCmp(q, Pow52) < 0 /\ e > MinExponent
    THEN FindExponent(a, b, e - 1)
  ELSE e

\* a first guess of that exponent, from the numbers of digits
EstimateExponent(a, b) ==
  IF ((BigDigits(a) - BigDigits(b)) * 3322) \div 1000 - 53 < MinExponent
  THEN MinExponent
  ELSE ((BigDigits(a) - BigDigits(b)) * 3322) \div 1000 - 53

\* c compares twice the remainder with the divisor
RoundsUp(c, q) == c > 0 \/ (c = 0 /\ BigLimb(q, 1) % 2 = 1)

Renormalised(f, e) ==
  IF f = Pow53 THEN [f |-> Pow52, e |-> e + 1] ELSE [f |-> f, e |-> e]

RoundHalfEven(dm, den, e) ==
  Renormalised(IF RoundsUp(BigCmp(BigMulSmall(dm.r, 2), den), dm.q)
               THEN BigAdd(dm.q, <<1>>) ELSE dm.q,
               e)

RoundScaled(sc, e) == RoundHalfEven(BigDivMod(sc.num, sc.den), sc.den, e)

RoundAt(a, b, e) == RoundScaled(Scaled(a, b, e), e)

\* the double nearest to a/b (a > 0), ties to even: f * 2^e
NearestDouble(a, b) == RoundAt(a, b, FindExponent(a, b, EstimateExponent(a, b)))

\* c compares a bound with a decimal; the bound itself reads back as the
\* double when the double's last bit is 0
Above(c, even) == c > 0 \/ (c = 0 /\ even)

\* r/s is the double, mp/s and mm/s half the distance to the next and to
\* the previous double, hi = r + mp; k puts the upper bound between
\* 10^(k-1) and 10^k
RECURSIVE ScaleDigits(_, _, _, _, _, _)
RECURSIVE ScaleStep(_, _, _, _, _, _, _)
ScaleDigits(r, s, mp, mm, k, even) ==
  ScaleStep(r, s, mp, mm, k, even, BigAdd(r, mp))

ScaleStep(r, s, mp, mm, k, even, hi) ==
  IF Above(BigCmp(hi, s), even)
    THEN ScaleDigits(r, BigMulSmall(s, 10), mp, mm, k + 1, even)
  ELSE IF Above(BigCmp(s, BigMulSmall(hi, 10)), ~even)
    THEN ScaleDigits(BigMulSmall(r, 10), s, BigMulSmall(mp, 10),
                     BigMulSmall(mm, 10), k - 1, even)
  ELSE [r |-> r, s |-> s, mp |-> mp, mm |-> mm, k |-> k]

\* the next digit d and what is left of r/s after it
DigitStep(dm, s, mp, mm, even) ==
  [d |-> BigLimb(dm.q, 1), r |-> dm.r,
   low |-> Above(BigCmp(mm, dm.r), even),
   high |-> Above(BigCmp(BigAdd(dm.r, mp), s), even),
   half |-> BigCmp(BigMulSmall(dm.r, 2), s)]

\* the digits after acc of the shortest decimal between the bounds, the
\* closest to the double when there are several, the even one of two
RECURSIVE GenerateDigits(_, _, _, _, _, _)
RECURSIVE GenerateStep(_, _, _, _, _, _)
GenerateDigits(r, s, mp, mm, even, acc) ==
  GenerateStep(DigitStep(BigDivMod(BigMulSmall(r, 10), s), s, mp, mm, even),
               s, mp, mm, even, acc)

GenerateStep(st, s, mp, mm, even, acc) ==
  IF ~st.low /\ ~st.high
    THEN GenerateDigits(st.r, s, BigMulSmall(mp, 10), BigMulSmall(mm, 10),
                        even, Append(acc, st.d))
  ELSE IF st.low /\ ~st.high THEN Append(acc, st.d)
  ELSE IF st.high /\ ~st.low THEN Append(acc, st.d + 1)
  ELSE IF st.half < 0 \/ (st.half = 0 /\ st.d % 2 = 0) THEN Append(acc, st.d)
  ELSE Append(acc, st.d + 1)

DigitsScaled(sc, even) ==
  [digits |-> GenerateDigits(sc.r, sc.s, BigMulSmall(sc.mp, 10),
                             BigMulSmall(sc.mm, 10), even, <<>>),
   n |-> sc.k]

\* est is a first guess of the decimal exponent
DigitsFrom(r, s, mp, mm, even, est) ==
  DigitsScaled(ScaleDigits(BigTimesPow10(r, IF est < 0 THEN -est ELSE 0),
                           BigTimesPow10(s, IF est > 0 THEN est ELSE 0),
                           BigTimesPow10(mp, IF est < 0 THEN -est ELSE 0),
                           BigTimesPow10(mm, IF est < 0 THEN -est ELSE 0),
                           est, even),
               even)

DigitsBetween(r, s, mp, mm, even) ==
  DigitsFrom(r, s, mp, mm, even, BigDigits(BigAdd(r, mp)) - BigDigits(s))

\* f * 2^up / 2^down with the next double w/2 times as far as the previous
DigitsOf(f, up, down, w) ==
  DigitsBetween(BigMulSmall(BigTimesPow2(f, up), w),
                BigTimesPow2(<<w>>, down),
                BigTimesPow2(<<w \div 2>>, up),
                BigTimesPow2(<<1>>, up),
                BigLimb(f, 1) % 2 = 0)

\* the shortest digits d1..dk and the n with  f * 2^e = 0.d1..dk * 10^n
ShortestDigits(f, e) ==
  DigitsOf(f, IF e > 0 THEN e ELSE 0, IF e < 0 THEN -e ELSE 0,
           IF f = Pow52 /\ e > MinExponent THEN 4 ELSE 2)

Zeros(n) == [i \in 1..n |-> "0"]

\* d.ddd e(+|-)x
ExponentForm(ds, x) ==
  (IF Len(ds) = 1 THEN ds ELSE <<ds[1], ".">> \o SubSeq(ds, 2, Len(ds)))
  \o (IF x < 0 THEN <<"e", "-">> \o NatToString(-x)
      ELSE <<"e", "+">> \o NatToString(x))

\* Number::toString for the positive number 0.d1..dk * 10^n
FormatDigits(ds, n) ==
  IF Len(ds) <= n /\ n <= 21 THEN ds \o Zeros(n - Len(ds))
  ELSE IF 0 < n /\ n <= 21
    THEN SubSeq(ds, 1, n) \o <<".">> \o SubSeq(ds, n + 1, Len(ds))
  ELSE IF -6 < n /\ n <= 0 THEN <<"0", ".">> \o Zeros(-n) \o ds
  ELSE ExponentForm(ds, n - 1)

\* ds without its leading zeros
StripLeadingZeros(ds) ==
  IF \A i \in 1..Len(ds) : ds[i] = "0" THEN <<>>
  ELSE SubSeq(ds,
              CHOOSE i \in 1..Len(ds) :
                ds[i] # "0" /\ \A j \in 1..(i - 1) : ds[j] = "0",
              Len(ds))

\* ds without its trailing zeros
StripTrailingZeros(ds) ==
  IF \A i \in 1..Len(ds) : ds[i] = "0" THEN <<>>
  ELSE SubSeq(ds, 1,
              CHOOSE i \in 1..Len(ds) :
                ds[i] # "0" /\ \A j \in (i + 1)..Len(ds) : ds[j] = "0")

\* the integer a, or -a when neg; beyond 400, which is beyond every
\* exponent a double has, 400 with the sign
SmallInt(neg, a) ==
  IF BigCmp(a, <<400>>) > 0 THEN (IF neg THEN -400 ELSE 400)
  ELSE IF neg THEN -BigLimb(a, 1) ELSE BigLimb(a, 1)

\* the sum of the exponent e and the count c as a SmallInt, each of them
\* a natural number of any size, negative when eNeg, cNeg
ExponentPlus(eNeg, e, cNeg, c) ==
  IF eNeg = cNeg THEN SmallInt(eNeg, BigAdd(e, c))
  ELSE IF BigCmp(e, c) >= 0 THEN SmallInt(eNeg, BigSub(e, c))
  ELSE SmallInt(cNeg, BigSub(c, e))

InfinityText == <<"I", "n", "f", "i", "n", "i", "t", "y">>

FormatShortest(sd) ==
  FormatDigits([i \in 1..Len(sd.digits) |-> DigitChar(sd.digits[i])], sd.n)

\* ToString of the double f * 2^e
DoubleToString(d) ==
  IF d.f = <<>> THEN <<"0">>
  ELSE IF d.e > 971 THEN InfinityText
  ELSE FormatShortest(ShortestDigits(d.f, d.e))

\* ToString of the double that the digits m times 10^x read as (m
\* without leading and trailing zeros).  A text of up to 15 digits is the
\* shortest text of its own double.
MagnitudeToString(m, x) ==
  IF m = <<>> \/ Len(m) + x < -330 THEN <<"0">>
  ELSE IF Len(m) + x > 310 THEN InfinityText
  ELSE IF Len(m) <= 15 /\ Len(m) + x >= -290 /\ Len(m) + x <= 300
    THEN FormatDigits(m, Len(m) + x)
  ELSE DoubleToString(
         NearestDouble(
           BigTimesPow10(BigFromDigits(m), IF x > 0 THEN x ELSE 0),
           BigTimesPow10(<<1>>, IF x < 0 THEN -x ELSE 0)))

\* all, the digits without leading zeros, nfrac of them (or of the zeros
\* before them) after the point, times 10^e or 10^-e: the digit before
\* the point of 0.d1d2.. * 10^n is n = e + Len(all) - nfrac, and the
\* trailing zeros of all are left out
MagnitudeOf(all, nfrac, expNeg, e) ==
  MagnitudeToString(
    StripTrailingZeros(all),
    ExponentPlus(expNeg, e, Len(all) < nfrac,
                 BigFromDigits(NatToString(IF Len(all) < nfrac
                                           THEN nfrac - Len(all)
                                           ELSE Len(all) - nfrac)))
      - Len(StripTrailingZeros(all)))

Signed(neg, text) ==
  IF neg /\ text # <<"0">> THEN <<"-">> \o text ELSE text

\* ToString(JSON.parse(text)) for the number text
\*   [-] int [. frac] [(e|E) [-|+] exp]
NumberToString(neg, int, frac, expNeg, exp) ==
  Signed(neg,
         MagnitudeOf(StripLeadingZeros(int \o frac), Len(frac), expNeg,
                     BigFromDigits(exp)))

(***************************************************************************)
(* JSON.parse and the JavaScript value operations the line handler uses.   *)
(* A value is a record [t, s, kids]: t the type, s the text of a string,   *)
(* number or literal, kids the members of an object or array.  The text   *)
(* of a number is the ToString of its double.  Escape sequences in strings *)
(* are outside the modelled alphabet.                                      *)
(***************************************************************************)
Undefined == [t |-> "undefined", s |-> <<>>, kids |-> <<>>]

JsNull == [t |-> "null", s |-> <<"n", "u", "l", "l">>, kids |-> <<>>]

JsString(s) == [t |-> "string", s |-> s, kids |-> <<>>]

JsNumber(s) == [t |-> "number", s |-> s, kids |-> <<>>]

JsBool(s) == [t |-> "boolean", s |-> s, kids |-> <<>>]

JsObject(kids) == [t |-> "object", s |-> <<>>, kids |-> kids]

JsArray(kids) == [t |-> "array", s |-> <<>>, kids |-> kids]

ParseFail == [ok |-> FALSE, v |-> Undefined, next |-> 0]

ParseOk(v, next) == [ok |-> TRUE, v |-> v, next |-> next]

RECURSIVE SkipWs(_, _)
SkipWs(s, i) ==
  IF i <= Len(s) /\ s[i] \in WhiteSpace THEN SkipWs(s, i + 1) ELSE i

\* the index of the closing quote of a string whose opening quote is
\* before i, or 0 when the string is unterminated or holds a raw newline
RECURSIVE StringEnd(_, _)
StringEnd(s, i) ==
  IF i > Len(s) THEN 0
  ELSE IF s[i] = "\"" THEN i
  ELSE IF s[i] = "\n" THEN 0
  ELSE StringEnd(s, i + 1)

\* the index after the digits at i (i itself when there is none)
DigitsEnd(s, i) ==
  IF i > Len(s) THEN i
  ELSE IF \A j \in i..Len(s) : s[j] \in Digits THEN Len(s) + 1
  ELSE CHOOSE j \in i..Len(s) :
         s[j] \notin Digits /\ \A m \in i..(j - 1) : s[m] \in Digits

\* number := '-'? ('0' | digit1-9 digit*) ('.' digit+)? (('e'|'E') ('-'|'+')? digit+)?
\* The index after the integer digits at d (d itself when there is none)
IntEnd(s, d) ==
  IF d <= Len(s) /\ s[d] = "0" THEN d + 1 ELSE DigitsEnd(s, d)

\* ... after the fraction at ie (ie + 1 when the point has no digit)
FracEnd(s, ie) ==
  IF ie <= Len(s) /\ s[ie] = "." THEN DigitsEnd(s, ie + 1) ELSE ie

\* the index of the exponent's digits at fe (fe itself without exponent)
ExpStart(s, fe) ==
  IF fe <= Len(s) /\ s[fe] \in {"e", "E"}
  THEN (IF fe + 1 <= Len(s) /\ s[fe + 1] \in {"-", "+"} THEN fe + 2
        ELSE fe + 1)
  ELSE fe

\* the parts of the number text and the index after it
NumberParts(s, i, d, ie, fe, xs, xe) ==
  [ok |-> ie > d /\ fe # ie + 1 /\ (xs = fe \/ xe > xs),
   next |-> xe,
   neg |-> d > i,
   int |-> SubSeq(s, d, ie - 1),
   frac |-> SubSeq(s, ie + 1, fe - 1),
   expNeg |-> xs = fe + 2 /\ s[fe + 1] = "-",
   exp |-> SubSeq(s, xs, xe - 1)]

ReadExponent(s, i, d, ie, fe, xs) ==
  NumberParts(s, i, d, ie, fe, xs, IF xs = fe THEN fe ELSE DigitsEnd(s, xs))

ReadFraction(s, i, d, ie, fe) == ReadExponent(s, i, d, ie, fe, ExpStart(s, fe))

ReadInt(s, i, d, ie) == ReadFraction(s, i, d, ie, FracEnd(s, ie))

ReadSign(s, i, d) == ReadInt(s, i, d, IntEnd(s, d))

\* the number text read at i
ReadNumber(s, i) ==
  ReadSign(s, i, IF i <= Len(s) /\ s[i] = "-" THEN i + 1 ELSE i)

\* ToString of the double a number text n reads as
ReadNumberToString(n) == NumberToString(n.neg, n.int, n.frac, n.expNeg, n.exp)

\* s when n is not the whole of it
WholeNumberToString(n, s) ==
  IF n.ok /\ n.next = Len(s) + 1 THEN ReadNumberToString(n) ELSE s

\* ToString of a number value: of the double its text reads as (NaN and
\* the infinities are their own text)
NumberText(s) ==
  IF s = InfinityText \/ s = <<"-">> \o InfinityText THEN s
  ELSE WholeNumberToString(ReadNumber(s, 1), s)

\* the result of reading a number at its start
ParseNumber(n) ==
  IF n.ok THEN ParseOk(JsNumber(ReadNumberToString(n)), n.next) ELSE ParseFail

HasWord(s, i, w) == i + Len(w) - 1 <= Len(s) /\ SubSeq(s, i, i + Len(w) - 1) = w

RECURSIVE ParseValue(_, _)
RECURSIVE ParseMembers(_, _, _)
RECURSIVE ParseElements(_, _, _)

\* value := ws (object | array | string | number | true | false | null)
ParseValue(s, i0) ==
  LET i == SkipWs(s, i0) IN
  IF i > Len(s) THEN ParseFail
  ELSE IF s[i] = "\"" THEN
    LET e == StringEnd(s, i + 1) IN
    IF e = 0 THEN ParseFail ELSE ParseOk(JsString(SubSeq(s, i + 1, e - 1)), e + 1)
  ELSE IF s[i] \in Digits \/ s[i] = "-" THEN
    ParseNumber(ReadNumber(s, i))
  ELSE IF HasWord(s, i, <<"t", "r", "u", "e">>)
    THEN ParseOk(JsBool(<<"t", "r", "u", "e">>), i + 4)
  ELSE IF HasWord(s, i, <<"f", "a", "l", "s", "e">>)
    THEN ParseOk(JsBool(<<"f", "a", "l", "s", "e">>), i + 5)
  ELSE IF HasWord(s, i, <<"n", "u", "l", "l">>) THEN ParseOk(JsNull, i + 4)
  ELSE IF s[i] = "{" THEN
    LET j == SkipWs(s, i + 1) IN
    IF j <= Len(s) /\ s[j] = "}" THEN ParseOk(JsObject(<<>>), j + 1)
    ELSE ParseMembers(s, i + 1, <<>>)
  ELSE IF s[i] = "[" THEN
    LET j == SkipWs(s, i + 1) IN
    IF j <= Len(s) /\ s[j] = "]" THEN ParseOk(JsArray(<<>>), j + 1)
    ELSE ParseElements(s, i + 1, <<>>)
  ELSE ParseFail

\* members := ws string ws ':' value ws (',' members | '}')
ParseMembers(s, i0, acc) ==
  LET i == SkipWs(s, i0) IN
  IF i > Len(s) \/ s[i] # "\"" THEN ParseFail
  ELSE
    LET e == StringEnd(s, i + 1) IN
    IF e = 0 THEN ParseFail
    ELSE
      LET c == SkipWs(s, e + 1) IN
      IF c > Len(s) \/ s[c] # ":" THEN ParseFail
      ELSE
        LET r == ParseValue(s, c + 1) IN
        IF ~r.ok THEN ParseFail
        ELSE
          LET n == SkipWs(s, r.next)
              acc2 == Append(acc, [k |-> SubSeq(s, i + 1, e - 1), v |-> r.v])
          IN IF n > Len(s) THEN ParseFail
             ELSE IF s[n] = "}" THEN ParseOk(JsObject(acc2), n + 1)
             ELSE IF s[n] = "," THEN ParseMembers(s, n + 1, acc2)
             ELSE ParseFail

\* elements := value ws (',' elements | ']')
ParseElements(s, i0, acc) ==
  LET r == ParseValue(s, i0) IN
  IF ~r.ok THEN ParseFail
  ELSE
    LET n == SkipWs(s, r.next)
        acc2 == Append(acc, [k |-> <<>>, v |-> r.v])
    IN IF n > Len(s) THEN ParseFail
       ELSE IF s[n] = "]" THEN ParseOk(JsArray(acc2), n + 1)
       ELSE IF s[n] = "," THEN ParseElements(s, n + 1, acc2)
       ELSE ParseFail

\* the value r read at the start of text when only white space follows
WholeText(r, text) ==
  IF r.ok /\ SkipWs(text, r.next) = Len(text) + 1 THEN r ELSE ParseFail

\* JSON.parse(text): ok = FALSE stands for the SyntaxError it throws.
JSONParse(text) == WholeText(ParseValue(text, 1), text)

\* parsed[key]: the last member of that name of an object, undefined on
\* any other value (on null the access throws: see HandleLine).
GetProp(v, key) ==
  LET idx == {i \in 1..Len(v.kids) : v.kids[i].k = key} IN
  IF v.t # "object" \/ idx = {} THEN Undefined
  ELSE v.kids[CHOOSE i \in idx : \A j \in idx : j <= i].v

\* ToBoolean
Truthy(v) ==
  CASE v.t \in {"undefined", "null"} -> FALSE
    [] v.t = "boolean" -> v.s = <<"t", "r", "u", "e">>
    [] v.t = "number" -> NumberText(v.s) \notin {<<"0">>, <<"N", "a", "N">>}
    [] v.t = "string" -> v.s # <<>>
    [] OTHER -> TRUE

\* ToString, as applied by  msg.content + parsed.content
RECURSIVE JsToString(_)
RECURSIVE JoinKids(_, _)
JsToString(v) ==
  CASE v.t \in {"string", "boolean", "null"} -> v.s
    [] v.t = "number" -> NumberText(v.s)
    [] v.t = "undefined" ->
         <<"u", "n", "d", "e", "f", "i", "n", "e", "d">>
    [] v.t = "object" ->
         <<"[", "o", "b", "j", "e", "c", "t", " ", "O", "b", "j", "e", "c", "t", "]">>
    [] OTHER -> JoinKids(v.kids, 1)

\* Array.prototype.join(","): null elements give the empty string
JoinKids(kids, i) ==
  IF i > Len(kids) THEN <<>>
  ELSE (IF kids[i].v.t = "null" THEN <<>> ELSE JsToString(kids[i].v))
       \o (IF i < Len(kids) THEN <<",">> \o JoinKids(kids, i + 1) ELSE <<>>)

(***************************************************************************)
(* The server side of the transport: the framing protocol                  *)
(*     data: <payload>\n                                                   *)
(* and the persisted conversations the Loader fetches.                     *)
(***************************************************************************)
DataPrefix == <<"d", "a", "t", "a", ":", " ">>

DoneToken == <<"[", "D", "O", "N", "E", "]">>

ConversationIdKey ==
  <<"c", "o", "n", "v", "e", "r", "s", "a", "t", "i", "o", "n", "_", "i", "d">>

ContentKey == <<"c", "o", "n", "t", "e", "n", "t">>

Quoted(s) == <<"\"">> \o s \o <<"\"">>

\* One server event as a frame line.
FrameText(ev) ==
  CASE ev.k = "conv" ->
         DataPrefix \o <<"{">> \o Quoted(ConversationIdKey) \o <<":">>
           \o Quoted(ev.s) \o <<"}", "\n">>
    [] ev.k = "content" ->
         DataPrefix \o <<"{">> \o Quoted(ContentKey) \o <<":">>
           \o Quoted(ev.s) \o <<"}", "\n">>
    [] ev.k = "done" -> DataPrefix \o DoneToken \o <<"\n">>
    [] ev.k = "text" -> DataPrefix \o ev.s \o <<"\n">>
    [] ev.k = "noise" -> ev.s \o <<"\n">>
    [] OTHER -> <<"\n">>

RECURSIVE StreamText(_)
StreamText(evs) ==
  IF evs = <<>> THEN <<>> ELSE FrameText(Head(evs)) \o StreamText(Tail(evs))

Conv(s) == [k |-> "conv", s |-> s]

Content(s) == [k |-> "content", s |-> s]

PlainText(s) == [k |-> "text", s |-> s]

Done == [k |-> "done", s |-> <<>>]

Blank == [k |-> "blank", s |-> <<>>]

\* a line that is no data line (a comment, another field, a bad prefix)
Noise(s) == [k |-> "noise", s |-> s]

\* The event sequences the server may answer a request with.
Streams ==
  << <<Conv(<<"c", "1">>), Blank, Content(<<"H", "e", "l">>),
       Content(<<"l", "o">>), Done>>,
     <<Content(<<"a">>), Done, Content(<<"b">>)>>,
     <<Conv(<<"c", "1">>), Conv(<<"c", "2">>), Content(<<"a">>), Done>>,
     <<PlainText(<<"n", "o", "t", "-", "j", "s", "o", "n">>), Blank, Done>>,
     <<Noise(<<":", "d", "a", "t", "a", ":", " ", "h", "i">>),
       Noise(<<"d", "a", "t", "a", ":", "a">>),
       PlainText(<<"1", "e", "1">>), Done>> >>

StreamBytes(n) == Utf8Encode(StreamText(Streams[n]))

\* The persisted conversations: GET by id returns {id, messages}.
ConvIds == {<<"c", "A">>, <<"c", "B">>}

Conversations ==
  [id \in ConvIds |->
     IF id = <<"c", "A">>
     THEN [id |-> id,
           messages |->
             << [id |-> <<"m", "1">>, role |-> "user", content |-> <<"h", "i">>],
                [id |-> <<"m", "2">>, role |-> "assistant",
                 content |-> <<"o", "h">>] >>]
     ELSE [id |-> id,
           messages |->
             << [id |-> <<"m", "3">>, role |-> "user", content |-> <<"a">>] >>]]

\* What the user may type into the textarea.
Inputs == {<<>>, <<" ">>, <<" ", "h", "i", "\n">>}

(***************************************************************************)
(* Bounds                                                                  *)
(***************************************************************************)
\* the whole page: submits, loads in a run, chunks the transport cuts a
\* response into
MaxSubmits == 2

MaxLoads == 1

MaxChunks == 1

\* one exchange read off a transport that cuts the response anywhere
StreamMaxChunks == 2

\* Date.now(): its first reading, how far it moves between two readings,
\* and the reading at which the model stops accepting submits
ClockStart == 9

MaxTick == 1

MaxClock == 10

\* conversation loads in a run of the load race
RaceMaxLoads == 2

\* the knowledge base page: handleUpload calls, files in one call,
\* confirmed deletes
MaxUploads == 2

MaxFiles == 2

MaxDeletes == 2

(***************************************************************************)
(* ChatPage                                                                *)
(***************************************************************************)
VARIABLES
  messages,               \* useState<Message[]>
  input,                  \* useState("")
  isStreaming,            \* useState(false)
  isLoadingConversation,  \* useState(false)
  conversationId,         \* useState<string | undefined>()
  pc,                     \* where the running handleSubmit is suspended
  assistantId,            \* handleSubmit's local assistantId
  closureConversationId,  \* conversationId as captured by handleSubmit
  stream,                 \* the response being read: index into Streams
  pos,                    \* bytes of it already delivered
  nchunks,                \* chunks of it already delivered
  pendingLoads,           \* getConversation calls in flight
  now,                    \* last value read from Date.now()
  requests,               \* streamMessage calls issued so far
  nloads,                 \* load effects run so far
  op,                     \* the last operation that ran
  outcome,                \* how the last handleSubmit ended
  effects,                \* state updates made by the running handleSubmit
  userIdx,                \* transcript index of its user message (0: replaced)
  phIdx,                  \* transcript index of its placeholder (0: replaced)
  limit                   \* the run's budget of submits, loads and chunks

VARIABLES
  searchParamsId,         \* searchParams.get("id"), <<>> when absent
  pendingFinally          \* loads whose then has run and finally has not

\* KnowledgeBasePage
VARIABLES
  documents,              \* useState<Document[]>([])
  isLoading,              \* useState(true)
  isUploading,            \* useState(false)
  mountList,              \* the mount effect's loadDocuments is in flight
  uploads,                \* handleUpload calls in flight
  deletes,                \* confirmed handleDelete calls in flight
  serverDocuments,        \* the documents the server holds
  serverNextId,           \* the number of the next document it stores
  nuploads,               \* handleUpload calls made so far
  ndeletes                \* confirmed deletes made so far

kbVars ==
  <<documents, isLoading, isUploading, mountList, uploads, deletes,
    serverDocuments, serverNextId, nuploads, ndeletes>>

\* ChatPage's state, the last operation aside.
chatVars ==
  <<messages, input, isStreaming, isLoadingConversation, conversationId, pc,
    assistantId, closureConversationId, stream, pos, nchunks, pendingLoads,
    now, requests, nloads, outcome, effects, userIdx, phIdx, limit,
    searchParamsId, pendingFinally>>

vars ==
  <<messages, input, isStreaming, isLoadingConversation, conversationId, pc,
    assistantId, closureConversationId, stream, pos, nchunks, pendingLoads,
    now, requests, nloads, op, outcome, effects, userIdx, phIdx, limit,
    searchParamsId, pendingFinally, kbVars>>

ErrorText ==
  <<"E", "r", "r", "o", "r", ":", " ", "F", "a", "i", "l", "e", "d", " ",
    "t", "o", " ", "g", "e", "t", " ", "r", "e", "s", "p", "o", "n", "s",
    "e", ".", " ", "P", "l", "e", "a", "s", "e", " ", "t", "r", "y", " ",
    "a", "g", "a", "i", "n", ".">>

Mounted ==
  /\ messages = <<>>
  /\ input = <<>>
  /\ isStreaming = FALSE
  /\ isLoadingConversation = FALSE
  /\ conversationId = Undefined
  /\ pc = "idle"
  /\ assistantId = <<>>
  /\ closureConversationId = Undefined
  /\ stream = 0
  /\ pos = 0
  /\ nchunks = 0
  /\ pendingLoads = <<>>
  /\ now = ClockStart
  /\ requests = <<>>
  /\ nloads = 0
  /\ op = "mount"
  /\ outcome = "none"
  /\ effects = <<>>
  /\ userIdx = 0
  /\ phIdx = 0
  /\ searchParamsId = <<>>
  /\ pendingFinally = 0

\* The documents the server holds when the page is opened.
StoredDocuments ==
  << [id |-> <<"d", "1">>, filename |-> <<"a">>],
     [id |-> <<"d", "2">>, filename |-> <<"b">>] >>

\* KnowledgeBasePage after its first render: the mount effect has called
\* loadDocuments.
KbMounted ==
  /\ documents = <<>>
  /\ isLoading = TRUE
  /\ isUploading = FALSE
  /\ mountList = TRUE
  /\ uploads = <<>>
  /\ deletes = <<>>
  /\ serverDocuments = StoredDocuments
  /\ serverNextId = 3
  /\ nuploads = 0
  /\ ndeletes = 0

Init ==
  /\ Mounted
  /\ KbMounted
  /\ limit = [submits |-> MaxSubmits, loads |-> MaxLoads, chunks |-> MaxChunks]

InitStream ==
  /\ Mounted
  /\ KbMounted
  /\ limit = [submits |-> 1, loads |-> 0, chunks |-> StreamMaxChunks]

(***************************************************************************)
(* handleSubmit                                                            *)
(***************************************************************************)

\* Variants of the guard: one that forgets the running exchange, one that
\* forgets to trim.
SubmitRejectedIgnoringStreaming(inp, streaming) == Trim(inp) = <<>>

SubmitRejectedWithoutTrim(inp, streaming) == inp = <<>> \/ streaming

\* if (!input.trim() || isStreaming) return;
SubmitRejected(inp, streaming) == Trim(inp) = <<>> \/ streaming

\* Variant: the request never carries the conversation id.
StreamRequestWithoutId(message, convId) ==
  [message |-> message, conversationId |-> Undefined]

\* api.chat.streamMessage(userMessage.content, conversationId): the
\* request issued
StreamRequest(message, convId) ==
  [message |-> message, conversationId |-> convId]

\* Variant: the user message carries the input as typed.
UserMessageUntrimmed(t, inp) ==
  [id |-> NatToString(t), role |-> "user", content |-> inp]

\* const userMessage = { id: Date.now().toString(), role: "user", ... }
UserMessage(t, inp) ==
  [id |-> NatToString(t), role |-> "user", content |-> Trim(inp)]

\* { id: assistantId, role: "assistant", content: "" }
Placeholder(aid) == [id |-> aid, role |-> "assistant", content |-> <<>>]

\* Variant: the transcript is set, not extended.
SubmitMessagesReplacing(prev, user, placeholder) == <<user, placeholder>>

\* Variant: the placeholder is not appended.
SubmitMessagesWithoutPlaceholder(prev, user, placeholder) == prev \o <<user>>

\* the two setMessages((prev) => [...prev, m]) of an accepted submit
SubmitMessages(prev, user, placeholder) == prev \o <<user, placeholder>>

\* Variant: the fragment goes to the last message, whatever its id.
AppendContentToLast(prev, aid, text) ==
  [i \in 1..Len(prev) |->
     IF i = Len(prev)
     THEN [prev[i] EXCEPT !.content = prev[i].content \o text]
     ELSE prev[i]]

\* Variants: the updated message gets a new id; the fragment replaces the
\* content.
AppendContentRenaming(prev, aid, text) ==
  [i \in 1..Len(prev) |->
     IF prev[i].id = aid
     THEN [prev[i] EXCEPT !.content = prev[i].content \o text,
                          !.id = prev[i].id \o <<"0">>]
     ELSE prev[i]]

AppendContentReplacing(prev, aid, text) ==
  [i \in 1..Len(prev) |->
     IF prev[i].id = aid THEN [prev[i] EXCEPT !.content = text]
     ELSE prev[i]]

\* prev.map((msg) => msg.id === assistantId
\*                     ? { ...msg, content: msg.content + text } : msg)
AppendContent(prev, aid, text) ==
  [i \in 1..Len(prev) |->
     IF prev[i].id = aid
     THEN [prev[i] EXCEPT !.content = prev[i].content \o text]
     ELSE prev[i]]

\* Variants of the catch block: the error text is appended to what
\* accumulated; the error text is written to every message.
FailMessagesKeepingPartial(prev, aid) ==
  [i \in 1..Len(prev) |->
     IF prev[i].id = aid
     THEN [prev[i] EXCEPT !.content = prev[i].content \o ErrorText]
     ELSE prev[i]]

FailMessagesEverywhere(prev, aid) ==
  [i \in 1..Len(prev) |-> [prev[i] EXCEPT !.content = ErrorText]]

\* the catch block's prev.map: the placeholder's content becomes the
\* error text
FailMessages(prev, aid) ==
  [i \in 1..Len(prev) |->
     IF prev[i].id = aid THEN [prev[i] EXCEPT !.content = ErrorText]
     ELSE prev[i]]

SetConversationId(v) == [k |-> "setConversationId", s |-> <<>>, v |-> v]

AppendFragment(s) == [k |-> "append", s |-> s, v |-> Undefined]

SawDone == [k |-> "done", s |-> <<>>, v |-> Undefined]

\* The updates for a parsed payload: setConversationId when it carries an
\* id and the closure has none, then the content appended.
HandleParsed(parsed, closureConv) ==
  (IF Truthy(GetProp(parsed, ConversationIdKey)) /\ ~Truthy(closureConv)
   THEN <<SetConversationId(GetProp(parsed, ConversationIdKey))>>
   ELSE <<>>)
  \o (IF Truthy(GetProp(parsed, ContentKey))
      THEN <<AppendFragment(JsToString(GetProp(parsed, ContentKey)))>>
      ELSE <<>>)

\* r is JSON.parse(data)
HandleData(data, r, closureConv) ==
  IF data = DoneToken THEN <<SawDone>>
  ELSE IF r.ok /\ r.v.t # "null" THEN HandleParsed(r.v, closureConv)
  ELSE \* JSON.parse threw, or parsed is null and the access threw
    IF Trim(data) # <<>> THEN <<AppendFragment(data)>> ELSE <<>>

\* The body of  for (const line of lines)  for one line: the state
\* updates it makes, in order (a "done" entry records that the line was
\* the terminator; it updates nothing).  closureConv is the conversationId
\* the running handleSubmit closed over.
HandleLine(line, closureConv) ==
  IF ~StartsWith(line, DataPrefix) THEN <<>>
  ELSE HandleData(Slice(line, 6), JSONParse(Slice(line, 6)), closureConv)

RECURSIVE HandleLines(_, _)
HandleLines(lines, closureConv) ==
  IF lines = <<>> THEN <<>>
  ELSE HandleLine(Head(lines), closureConv)
       \o HandleLines(Tail(lines), closureConv)

\* One iteration of the read loop on a chunk of bytes:
\* decoder.decode(value), chunk.split("\n"), the loop over the lines.
HandleChunk(bytes, closureConv) ==
  HandleLines(SplitLines(Utf8Decode(bytes)), closureConv)

\* The transcript after a sequence of state updates.
RECURSIVE ApplyToMessages(_, _, _)
ApplyToMessages(prev, aid, effs) ==
  IF effs = <<>> THEN prev
  ELSE ApplyToMessages(
         IF Head(effs).k = "append"
         THEN AppendContent(prev, aid, Head(effs).s) ELSE prev,
         aid, Tail(effs))

\* The conversation id after a sequence of state updates.
RECURSIVE ApplyToConversationId(_, _)
ApplyToConversationId(prev, effs) ==
  IF effs = <<>> THEN prev
  ELSE ApplyToConversationId(
         IF Head(effs).k = "setConversationId" THEN Head(effs).v ELSE prev,
         Tail(effs))

Min(a, b) == IF a < b THEN a ELSE b

\* Variant: the finally block does not clear isStreaming.
FinishStillStreaming(result) ==
  /\ isStreaming' = isStreaming
  /\ pc' = "idle"
  /\ outcome' = result

\* The exchange is over: finally { setIsStreaming(false) }
Finish(result) ==
  /\ isStreaming' = FALSE
  /\ pc' = "idle"
  /\ outcome' = result

\* An event handler runs from the event loop, when no promise job is queued,
\* so never between a load's then and its finally.
HandlersRun == pendingFinally = 0

\* handleSubmit up to its first await (the form's submit, or Enter).
HandleSubmit ==
  /\ HandlersRun
  /\ op' = "handleSubmit"
  /\ IF SubmitRejected(input, isStreaming)
     THEN UNCHANGED <<messages, input, isStreaming, isLoadingConversation,
                      conversationId, pc, assistantId, closureConversationId,
                      stream, pos, nchunks, pendingLoads, now, requests,
                      nloads, outcome, effects, userIdx, phIdx, limit,
                      searchParamsId, pendingFinally, kbVars>>
     ELSE
       /\ Len(requests) < limit.submits
       /\ \E t1 \in now..Min(now + MaxTick, MaxClock) :
            \E t2 \in t1..Min(t1 + MaxTick, MaxClock) :
              /\ now' = t2
              /\ assistantId' = NatToString(t2 + 1)
              /\ messages' = SubmitMessages(messages, UserMessage(t1, input),
                                            Placeholder(NatToString(t2 + 1)))
       /\ input' = <<>>
       /\ isStreaming' = TRUE
       /\ closureConversationId' = conversationId
       /\ requests' = Append(requests,
                             StreamRequest(Trim(input), conversationId))
       /\ pc' = "sending"
       /\ outcome' = "none"
       /\ effects' = <<>>
       /\ userIdx' = Len(messages) + 1
       /\ phIdx' = Len(messages) + 2
       /\ stream' = 0
       /\ pos' = 0
       /\ nchunks' = 0
       /\ UNCHANGED <<isLoadingConversation, conversationId, pendingLoads,
                      nloads, limit,
                      searchParamsId, pendingFinally, kbVars>>

\* await api.chat.streamMessage(...) resolves with a body: the read loop
\* starts on the stream the server answers with.
RequestResolves ==
  /\ pc = "sending"
  /\ op' = "response"
  /\ \E n \in 1..Len(Streams) : stream' = n
  /\ pc' = "reading"
  /\ pos' = 0
  /\ nchunks' = 0
  /\ UNCHANGED <<messages, input, isStreaming, isLoadingConversation,
                 conversationId, assistantId, closureConversationId,
                 pendingLoads, now, requests, nloads, outcome, effects,
                 userIdx, phIdx, limit,
                 searchParamsId, pendingFinally, kbVars>>

\* Variant: a response without a body is handled as a failure.
RequestResolvesNoBodyFailing ==
  /\ pc = "sending"
  /\ op' = "responseNoBody"
  /\ messages' = FailMessages(messages, assistantId)
  /\ Finish("failed")
  /\ UNCHANGED <<input, isLoadingConversation, conversationId, assistantId,
                 closureConversationId, stream, pos, nchunks, pendingLoads,
                 now, requests, nloads, effects, userIdx, phIdx, limit,
                 searchParamsId, pendingFinally, kbVars>>

\* ... resolves without a body: response.body?.getReader() is undefined,
\* the loop is skipped.
RequestResolvesNoBody ==
  /\ pc = "sending"
  /\ op' = "responseNoBody"
  /\ Finish("completed")
  /\ UNCHANGED <<messages, input, isLoadingConversation, conversationId,
                 assistantId, closureConversationId, stream, pos, nchunks,
                 pendingLoads, now, requests, nloads, effects, userIdx,
                 phIdx, limit,
                 searchParamsId, pendingFinally, kbVars>>

\* ... rejects: catch, then finally.
RequestRejects ==
  /\ pc = "sending"
  /\ op' = "requestError"
  /\ messages' = FailMessages(messages, assistantId)
  /\ Finish("failed")
  /\ UNCHANGED <<input, isLoadingConversation, conversationId, assistantId,
                 closureConversationId, stream, pos, nchunks, pendingLoads,
                 now, requests, nloads, effects, userIdx, phIdx, limit,
                 searchParamsId, pendingFinally, kbVars>>

\* await reader.read() gives {done: false, value}: the transport cuts the
\* stream where it likes.
ReadChunk ==
  /\ pc = "reading"
  /\ pos < Len(StreamBytes(stream))
  /\ op' = "chunk"
  /\ \E q \in (pos + 1)..Len(StreamBytes(stream)) :
       /\ nchunks + 1 < limit.chunks \/ q = Len(StreamBytes(stream))
       /\ LET effs == HandleChunk(SubSeq(StreamBytes(stream), pos + 1, q),
                                  closureConversationId)
          IN /\ messages' = ApplyToMessages(messages, assistantId, effs)
             /\ conversationId' = ApplyToConversationId(conversationId, effs)
             /\ effects' = effects \o effs
       /\ pos' = q
  /\ nchunks' = nchunks + 1
  /\ UNCHANGED <<input, isStreaming, isLoadingConversation, pc, assistantId,
                 closureConversationId, stream, pendingLoads, now, requests,
                 nloads, outcome, userIdx, phIdx, limit,
                 searchParamsId, pendingFinally, kbVars>>

\* await reader.read() gives {done: true}: break, then finally.
ReadDone ==
  /\ pc = "reading"
  /\ pos = Len(StreamBytes(stream))
  /\ op' = "streamEnd"
  /\ Finish("completed")
  /\ UNCHANGED <<messages, input, isLoadingConversation, conversationId,
                 assistantId, closureConversationId, stream, pos, nchunks,
                 pendingLoads, now, requests, nloads, effects, userIdx,
                 phIdx, limit,
                 searchParamsId, pendingFinally, kbVars>>

\* await reader.read() rejects: catch, then finally.
ReadFails ==
  /\ pc = "reading"
  /\ op' = "readError"
  /\ messages' = FailMessages(messages, assistantId)
  /\ Finish("failed")
  /\ UNCHANGED <<input, isLoadingConversation, conversationId, assistantId,
                 closureConversationId, stream, pos, nchunks, pendingLoads,
                 now, requests, nloads, effects, userIdx, phIdx, limit,
                 searchParamsId, pendingFinally, kbVars>>

\* onChange={(e) => setInput(e.target.value)}
ChangeInput ==
  /\ HandlersRun
  /\ op' = "changeInput"
  /\ \E v \in Inputs : input' = v
  /\ input' # input
  /\ UNCHANGED <<messages, isStreaming, isLoadingConversation, conversationId,
                 pc, assistantId, closureConversationId, stream, pos, nchunks,
                 pendingLoads, now, requests, nloads, outcome, effects,
                 userIdx, phIdx, limit,
                 searchParamsId, pendingFinally, kbVars>>

(***************************************************************************)
(* The conversation load effect                                            *)
(***************************************************************************)

\* Variant: the fetched messages in reverse order.
LoadedMessagesReversed(conv) ==
  [i \in 1..Len(conv.messages) |->
     [id |-> conv.messages[Len(conv.messages) + 1 - i].id,
      role |-> conv.messages[Len(conv.messages) + 1 - i].role,
      content |-> conv.messages[Len(conv.messages) + 1 - i].content]]

\* conv.messages.map((msg) => ({ id, role, content }))
LoadedMessages(conv) ==
  [i \in 1..Len(conv.messages) |->
     [id |-> conv.messages[i].id, role |-> conv.messages[i].role,
      content |-> conv.messages[i].content]]

\* searchParams changes, so the effect runs.  Without an id it returns
\* at once; with one it issues the fetch.
LoadStart ==
  /\ HandlersRun
  /\ op' = "loadStart"
  /\ \E id \in (ConvIds \cup {<<>>}) \ {searchParamsId} :
       /\ searchParamsId' = id
       /\ IF id = <<>>
          THEN UNCHANGED <<pendingLoads, isLoadingConversation, nloads>>
          ELSE /\ nloads < limit.loads
               /\ pendingLoads' = Append(pendingLoads, id)
               /\ isLoadingConversation' = TRUE
               /\ nloads' = nloads + 1
  /\ UNCHANGED <<messages, input, isStreaming, conversationId, pc,
                 assistantId, closureConversationId, stream, pos, nchunks,
                 now, requests, outcome, effects, userIdx, phIdx, limit,
                 pendingFinally, kbVars>>

Remove(seq, i) == SubSeq(seq, 1, i - 1) \o SubSeq(seq, i + 1, Len(seq))

\* Variant: a successful load also ends the running exchange's session.
LoadSucceedsEndingExchange ==
  /\ op' = "loadOk"
  /\ \E i \in 1..Len(pendingLoads) :
       /\ conversationId' = JsString(Conversations[pendingLoads[i]].id)
       /\ messages' = LoadedMessages(Conversations[pendingLoads[i]])
       /\ pendingLoads' = Remove(pendingLoads, i)
  /\ pendingFinally' = pendingFinally + 1
  /\ isStreaming' = FALSE
  /\ userIdx' = 0
  /\ phIdx' = 0
  /\ UNCHANGED <<input, isLoadingConversation, pc, assistantId,
                 closureConversationId, stream, pos, nchunks, now, requests,
                 nloads, outcome, effects, limit, searchParamsId, kbVars>>

\* getConversation resolves: the then callback.  The finally callback is
\* a later promise job.
LoadSucceeds ==
  /\ op' = "loadOk"
  /\ \E i \in 1..Len(pendingLoads) :
       /\ conversationId' = JsString(Conversations[pendingLoads[i]].id)
       /\ messages' = LoadedMessages(Conversations[pendingLoads[i]])
       /\ pendingLoads' = Remove(pendingLoads, i)
  /\ pendingFinally' = pendingFinally + 1
  /\ userIdx' = 0
  /\ phIdx' = 0
  /\ UNCHANGED <<input, isStreaming, isLoadingConversation, pc, assistantId,
                 closureConversationId, stream, pos, nchunks, now, requests,
                 nloads, outcome, effects, limit, searchParamsId, kbVars>>

\* The finally callback of a load whose then callback has run.
LoadFinally ==
  /\ pendingFinally > 0
  /\ op' = "loadFinally"
  /\ pendingFinally' = pendingFinally - 1
  /\ isLoadingConversation' = FALSE
  /\ UNCHANGED <<messages, input, isStreaming, conversationId, pc,
                 assistantId, closureConversationId, stream, pos, nchunks,
                 pendingLoads, now, requests, nloads, outcome, effects,
                 userIdx, phIdx, limit, searchParamsId, kbVars>>

\* Variant: a failed load clears the transcript and the conversation id.
LoadFailsClearing ==
  /\ op' = "loadError"
  /\ \E i \in 1..Len(pendingLoads) : pendingLoads' = Remove(pendingLoads, i)
  /\ isLoadingConversation' = FALSE
  /\ messages' = <<>>
  /\ conversationId' = Undefined
  /\ UNCHANGED <<input, isStreaming, pc, assistantId, closureConversationId,
                 stream, pos, nchunks, now, requests, nloads, outcome,
                 effects, userIdx, phIdx, limit,
                 searchParamsId, pendingFinally, kbVars>>

\* getConversation rejects: the catch callback logs and changes no
\* state, the finally callback follows it.
LoadFails ==
  /\ op' = "loadError"
  /\ \E i \in 1..Len(pendingLoads) : pendingLoads' = Remove(pendingLoads, i)
  /\ isLoadingConversation' = FALSE
  /\ UNCHANGED <<messages, input, isStreaming, conversationId, pc,
                 assistantId, closureConversationId, stream, pos, nchunks,
                 now, requests, nloads, outcome, effects, userIdx, phIdx, limit,
                 searchParamsId, pendingFinally, kbVars>>

Next ==
  \/ HandleSubmit
  \/ RequestResolves
  \/ RequestResolvesNoBody
  \/ RequestRejects
  \/ ReadChunk
  \/ ReadDone
  \/ ReadFails
  \/ ChangeInput
  \/ LoadStart
  \/ LoadSucceeds
  \/ LoadFinally
  \/ LoadFails

Spec == Init /\ [][Next]_vars

\* The request settles and every read settles: the event loop resumes
\* handleSubmit whenever the promise it awaits has settled.
RequestSettles == RequestResolves \/ RequestResolvesNoBody \/ RequestRejects

ReadSettles == ReadFails \/ ReadDone \/ ReadChunk

\* One exchange, no conversation load.
NextStream ==
  \/ HandleSubmit
  \/ RequestResolves
  \/ RequestResolvesNoBody
  \/ RequestRejects
  \/ ReadChunk
  \/ ReadDone
  \/ ReadFails
  \/ ChangeInput

SpecStream == InitStream /\ [][NextStream]_vars

\* Submits without a conversation load, every awaited promise settling.
InitFair ==
  /\ Mounted
  /\ KbMounted
  /\ limit = [submits |-> MaxSubmits, loads |-> 0, chunks |-> MaxChunks]

SpecFair ==
  /\ InitFair
  /\ [][NextStream]_vars
  /\ WF_vars(RequestSettles)
  /\ WF_vars(ReadSettles)

\* The page with the id parameter changing while a load is in flight.
InitLoad ==
  /\ Mounted
  /\ KbMounted
  /\ limit = [submits |-> 1, loads |-> RaceMaxLoads, chunks |-> MaxChunks]

SpecLoad == InitLoad /\ [][Next]_vars

(***************************************************************************)
(* KnowledgeBasePage                                                       *)
(***************************************************************************)

\* What the server stores for an uploaded file.
StoredDocument(n) ==
  [id |-> <<"d">> \o NatToString(n), filename |-> <<"f">>]

\* prev.filter((d) => d.id !== docId)
FilterDocuments(prev, docId) ==
  SelectSeq(prev, LAMBDA d : d.id # docId)

\* loadDocuments of the mount effect: list() resolves.
MountListResolves ==
  /\ mountList
  /\ op' = "listOk"
  /\ documents' = serverDocuments
  /\ isLoading' = FALSE
  /\ mountList' = FALSE
  /\ UNCHANGED <<isUploading, uploads, deletes, serverDocuments,
                 serverNextId, nuploads, ndeletes, chatVars>>

\* ... list() rejects: catch, finally.
MountListRejects ==
  /\ mountList
  /\ op' = "listError"
  /\ isLoading' = FALSE
  /\ mountList' = FALSE
  /\ UNCHANGED <<documents, isUploading, uploads, deletes, serverDocuments,
                 serverNextId, nuploads, ndeletes, chatVars>>

\* An event handler runs from the event loop, when no promise job is queued,
\* so never between the end of loadDocuments and handleUpload's finally.
KbHandlersRun == \A b \in 1..Len(uploads) : uploads[b].st # "finishing"

\* handleUpload(files), from a drop or the file input, up to its first
\* await: with no file the loop is skipped and the list is refreshed.
HandleUpload ==
  /\ KbHandlersRun
  /\ nuploads < MaxUploads
  /\ op' = "handleUpload"
  /\ isUploading' = TRUE
  /\ \E n \in 0..MaxFiles :
       uploads' = Append(uploads,
                         [left |-> n,
                          st |-> IF n = 0 THEN "listing" ELSE "uploading"])
  /\ nuploads' = nuploads + 1
  /\ UNCHANGED <<documents, isLoading, mountList, deletes, serverDocuments,
                 serverNextId, ndeletes, chatVars>>

\* await api.documents.upload(file) resolves: the next file, or after the
\* last one loadDocuments.
UploadResolves ==
  /\ op' = "uploadOk"
  /\ \E b \in 1..Len(uploads) :
       /\ uploads[b].st = "uploading"
       /\ uploads' = [uploads EXCEPT
                        ![b] = [left |-> uploads[b].left - 1,
                                st |-> IF uploads[b].left = 1
                                       THEN "listing" ELSE "uploading"]]
  /\ serverDocuments' = Append(serverDocuments, StoredDocument(serverNextId))
  /\ serverNextId' = serverNextId + 1
  /\ UNCHANGED <<documents, isLoading, isUploading, mountList, deletes,
                 nuploads, ndeletes, chatVars>>

\* ... rejects: catch (alert), finally.
UploadRejects ==
  /\ op' = "uploadError"
  /\ \E b \in 1..Len(uploads) :
       /\ uploads[b].st = "uploading"
       /\ uploads' = Remove(uploads, b)
  /\ isUploading' = FALSE
  /\ UNCHANGED <<documents, isLoading, mountList, deletes, serverDocuments,
                 serverNextId, nuploads, ndeletes, chatVars>>

\* await loadDocuments() of a handleUpload: list() resolves and
\* loadDocuments runs to its end.  handleUpload resumes in a later
\* promise job.
RefreshResolves ==
  /\ op' = "refreshOk"
  /\ \E b \in 1..Len(uploads) :
       /\ uploads[b].st = "listing"
       /\ uploads' = [uploads EXCEPT ![b].st = "finishing"]
  /\ documents' = serverDocuments
  /\ isLoading' = FALSE
  /\ UNCHANGED <<isUploading, mountList, deletes, serverDocuments,
                 serverNextId, nuploads, ndeletes, chatVars>>

\* ... list() rejects: loadDocuments' catch and finally.
RefreshRejects ==
  /\ op' = "refreshError"
  /\ \E b \in 1..Len(uploads) :
       /\ uploads[b].st = "listing"
       /\ uploads' = [uploads EXCEPT ![b].st = "finishing"]
  /\ isLoading' = FALSE
  /\ UNCHANGED <<documents, isUploading, mountList, deletes, serverDocuments,
                 serverNextId, nuploads, ndeletes, chatVars>>

\* handleUpload resumes after loadDocuments: finally.
UploadFinally ==
  /\ op' = "uploadFinally"
  /\ \E b \in 1..Len(uploads) :
       /\ uploads[b].st = "finishing"
       /\ uploads' = Remove(uploads, b)
  /\ isUploading' = FALSE
  /\ UNCHANGED <<documents, isLoading, mountList, deletes, serverDocuments,
                 serverNextId, nuploads, ndeletes, chatVars>>

\* handleDelete(doc.id) from a row of the table, confirm() answers no.
HandleDeleteDeclined ==
  /\ KbHandlersRun
  /\ ~isLoading
  /\ documents # <<>>
  /\ op' = "deleteDeclined"
  /\ UNCHANGED <<kbVars, chatVars>>

\* Variant: the document is removed as soon as the user confirms.
HandleDeleteConfirmedOptimistic ==
  /\ KbHandlersRun
  /\ ~isLoading
  /\ ndeletes < MaxDeletes
  /\ op' = "deleteConfirmed"
  /\ \E i \in 1..Len(documents) :
       /\ deletes' = Append(deletes, documents[i].id)
       /\ documents' = FilterDocuments(documents, documents[i].id)
  /\ ndeletes' = ndeletes + 1
  /\ UNCHANGED <<isLoading, isUploading, mountList, uploads,
                 serverDocuments, serverNextId, nuploads, chatVars>>

\* ... confirm() answers yes: the delete request is issued.
HandleDeleteConfirmed ==
  /\ KbHandlersRun
  /\ ~isLoading
  /\ ndeletes < MaxDeletes
  /\ op' = "deleteConfirmed"
  /\ \E i \in 1..Len(documents) :
       deletes' = Append(deletes, documents[i].id)
  /\ ndeletes' = ndeletes + 1
  /\ UNCHANGED <<documents, isLoading, isUploading, mountList, uploads,
                 serverDocuments, serverNextId, nuploads, chatVars>>

\* await api.documents.delete(docId) resolves.
DeleteResolves ==
  /\ op' = "deleteOk"
  /\ \E i \in 1..Len(deletes) :
       /\ documents' = FilterDocuments(documents, deletes[i])
       /\ serverDocuments' = FilterDocuments(serverDocuments, deletes[i])
       /\ deletes' = Remove(deletes, i)
  /\ UNCHANGED <<isLoading, isUploading, mountList, uploads, serverNextId,
                 nuploads, ndeletes, chatVars>>

\* ... rejects: catch (alert).
DeleteRejects ==
  /\ op' = "deleteError"
  /\ \E i \in 1..Len(deletes) : deletes' = Remove(deletes, i)
  /\ UNCHANGED <<documents, isLoading, isUploading, mountList, uploads,
                 serverDocuments, serverNextId, nuploads, ndeletes, chatVars>>

NextKb ==
  \/ MountListResolves
  \/ MountListRejects
  \/ HandleUpload
  \/ UploadResolves
  \/ UploadRejects
  \/ RefreshResolves
  \/ RefreshRejects
  \/ UploadFinally
  \/ HandleDeleteDeclined
  \/ HandleDeleteConfirmed
  \/ DeleteResolves
  \/ DeleteRejects

SpecKb == Init /\ [][NextKb]_vars

(***************************************************************************)
(* Properties                                                              *)
(***************************************************************************)

\* The state updates an observer can see: fragments appended and
\* conversation ids set.
Observable(effs) == SelectSeq(effs, LAMBDA e : e.k # "done")

HasAppend(effs) == \E i \in 1..Len(effs) : effs[i].k = "append"

\* The text fragments the server's events carry, in order.
RECURSIVE Fragments(_)
Fragments(evs) ==
  IF evs = <<>> THEN <<>>
  ELSE (IF Head(evs).k \in {"content", "text"} THEN Head(evs).s ELSE <<>>)
       \o Fragments(Tail(evs))

\* The running (or last) exchange ended by the stream closing.
StreamCompleted == outcome = "completed" /\ stream # 0

\* C1: chunking invariance.  The state updates an exchange made while
\* reading a stream that the transport cut into chunks are the updates
\* the same stream makes when it arrives as a single chunk.
C1_ChunkingInvariance ==
  StreamCompleted =>
    Observable(effects)
      = Observable(HandleChunk(StreamBytes(stream), closureConversationId))

\* C2: terminator precedence.  After a line  data: [DONE]  was processed,
\* no later line of the stream appends text or sets the conversation id.
C2_TerminatorPrecedence ==
  \A i \in 1..Len(effects) : \A j \in 1..Len(effects) :
    (i < j /\ effects[i].k = "done") => effects[j].k = "done"

\* C3: at most one active exchange.  A submit while isStreaming is true
\* changes neither the transcript, nor the requests issued, nor anything
\* of the exchange in flight.
C3_AtMostOneActive ==
  [][(op' = "handleSubmit" /\ isStreaming)
       => UNCHANGED <<messages, requests, isStreaming, conversationId, pc,
                      assistantId, closureConversationId, stream, pos,
                      nchunks, outcome, effects, userIdx, phIdx>>]_vars

C3_Witness ==
  /\ op = "handleSubmit"
  /\ isStreaming
  /\ pc = "reading"
  /\ Trim(input) # <<>>
  /\ Len(requests) < limit.submits

\* C4: in-order reconstruction.  When the stream has ended normally, the
\* placeholder holds the concatenation, in arrival order, of the text
\* fragments the stream's data lines carry.
C4_InOrderReconstruction ==
  (StreamCompleted /\ phIdx # 0)
    => messages[phIdx].content = Fragments(Streams[stream])

\* C5: mid-stream failure.  When a read fails after fragments were
\* appended, the placeholder holds exactly the error text and the page
\* accepts submissions again.
C5_MidStreamFailure ==
  (outcome = "failed" /\ HasAppend(effects))
    => /\ ~isStreaming
       /\ pc = "idle"
       /\ phIdx # 0 => messages[phIdx].content = ErrorText

C5_Witness ==
  /\ outcome = "failed"
  /\ HasAppend(effects)
  /\ phIdx # 0
  /\ messages[phIdx].content = ErrorText
  /\ ~isStreaming

\* C6: rejected request.  When streamMessage rejects, the exchange ends
\* failed at once, the placeholder goes from empty to the error text, and
\* the user message of that submit stays where it is, unchanged.
C6_RejectedRequest ==
  [][(pc = "sending" /\ outcome' = "failed")
       => /\ pc' = "idle"
          /\ effects = <<>>
          /\ Len(messages') = Len(messages)
          /\ phIdx # 0
               => /\ messages[phIdx].content = <<>>
                  /\ messages'[phIdx].content = ErrorText
                  /\ messages'[userIdx] = messages[userIdx]
                  /\ messages[userIdx].role = "user"
                  /\ messages[userIdx].content
                       = requests[Len(requests)].message]_vars

C6_Witness ==
  /\ op = "requestError"
  /\ outcome = "failed"
  /\ phIdx # 0
  /\ messages[phIdx].content = ErrorText
  /\ messages[userIdx].content = <<"h", "i">>

\* C7: conversation id first-bind.  An exchange that started with no
\* conversation id sets the conversation id at most once.
C7_FirstBind ==
  Cardinality({i \in 1..Len(effects) : effects[i].k = "setConversationId"})
    <= 1

\* C8: stale mutation after reset.  Once the Loader has replaced the
\* transcript during an exchange, a chunk of that exchange, or its
\* failure, leaves the transcript as it is.
C8_StaleMutation ==
  [][(pc = "reading" /\ phIdx = 0 /\ op' \in {"chunk", "readError"})
       => messages' = messages]_vars

C8_Witness ==
  /\ op = "chunk"
  /\ phIdx = 0
  /\ HasAppend(effects)
  /\ \E id \in ConvIds : messages = LoadedMessages(Conversations[id])

\* C9: append-only transcript count.  Without any conversation load, the
\* transcript holds two messages per accepted submit, and no step removes
\* or replaces a message.
C9_AppendOnlyCount ==
  [][nloads' = 0
       => /\ Len(messages') = 2 * Len(requests')
          /\ Len(messages') >= Len(messages)
          /\ \A i \in 1..Len(messages) :
               /\ messages'[i].id = messages[i].id
               /\ messages'[i].role = messages[i].role]_vars

C9_Witness ==
  /\ nloads = 0
  /\ Len(requests) >= 2
  /\ pc = "idle"
  /\ Len(messages) = 2 * Len(requests)

\* C10: empty input is rejected.  A submit whose input is empty after
\* trimming appends no message, issues no request and leaves isStreaming
\* and the conversation id as they are.
C10_EmptyInputRejected ==
  [][(op' = "handleSubmit" /\ Trim(input) = <<>>)
       => UNCHANGED <<messages, requests, isStreaming, conversationId, pc,
                      input, outcome>>]_vars

C10_Witness ==
  /\ op = "handleSubmit"
  /\ input = <<" ">>
  /\ ~isStreaming
  /\ Len(requests) < limit.submits

\* C11: the conversation id is carried forward.  Every request carries
\* the conversation id known when it is issued, and none when none is
\* known.
C11_CarriedForward ==
  [][Len(requests') = Len(requests) + 1
       => /\ requests'[Len(requests')].conversationId = conversationId
          /\ Truthy(requests'[Len(requests')].conversationId)
               <=> conversationId # Undefined]_vars

C11_Witness ==
  /\ Len(requests) = 2
  /\ requests[1].conversationId = Undefined
  /\ requests[2].conversationId = JsString(<<"c", "1">>)
  /\ nloads = 0

\* C12: every accepted exchange terminates cleanly.  An exchange in
\* flight ends completed or failed with isStreaming false, and no
\* exchange is in flight exactly when isStreaming is false, so that the
\* next submit with text is accepted.
C12_TerminatesCleanly ==
  /\ [](isStreaming <=> pc # "idle")
  /\ isStreaming ~> (~isStreaming /\ outcome \in {"completed", "failed"})
  /\ [][(op' = "handleSubmit" /\ ~isStreaming /\ Trim(input) # <<>>)
          => (isStreaming' /\ pc' = "sending"
              /\ Len(requests') = Len(requests) + 1)]_vars

C12_Witness ==
  /\ Len(requests) = 2
  /\ pc = "sending"
  /\ \E i \in 1..Len(messages) :
       messages[i].role = "assistant" /\ messages[i].content = ErrorText

\* What the fallback rule asks of one payload: a payload that parses as a
\* record is applied as a record; any other payload that is non-empty
\* after trimming is one text fragment, verbatim.
PayloadDichotomy(data, closureConv) ==
  LET r == JSONParse(data)
  IN IF r.ok /\ r.v.t = "object" THEN
       (IF Truthy(GetProp(r.v, ConversationIdKey)) /\ ~Truthy(closureConv)
        THEN <<SetConversationId(GetProp(r.v, ConversationIdKey))>>
        ELSE <<>>)
       \o (IF Truthy(GetProp(r.v, ContentKey))
           THEN <<AppendFragment(JsToString(GetProp(r.v, ContentKey)))>>
           ELSE <<>>)
     ELSE IF Trim(data) # <<>> THEN <<AppendFragment(data)>> ELSE <<>>

RECURSIVE LinesDichotomy(_, _)
LinesDichotomy(lines, closureConv) ==
  IF lines = <<>> THEN <<>>
  ELSE (IF StartsWith(Head(lines), DataPrefix)
           /\ Slice(Head(lines), 6) # DoneToken
        THEN PayloadDichotomy(Slice(Head(lines), 6), closureConv)
        ELSE <<>>)
       \o LinesDichotomy(Tail(lines), closureConv)

\* C13: plain-text fallback dichotomy.  When a response arrives whole in
\* one chunk, every payload other than [DONE] is applied as a record if
\* it parses as one and is otherwise, when non-empty after trimming,
\* appended verbatim as one fragment; the exchange stays active.
C13_FallbackDichotomy ==
  [][(op' = "chunk" /\ pos = 0 /\ pos' = Len(StreamBytes(stream)))
       => /\ Observable(effects')
               = Observable(effects)
                   \o LinesDichotomy(
                        SplitLines(Utf8Decode(StreamBytes(stream))),
                        closureConversationId)
          /\ isStreaming' /\ pc' = "reading"]_vars

\* C14: load failure preserves state.  Neither issuing the fetch nor its
\* failure changes the transcript or the conversation id; the failure
\* issues no new fetch and leaves the loading flag false.
C14_LoadFailurePreserves ==
  [][/\ op' = "loadStart"
          => messages' = messages /\ conversationId' = conversationId
     /\ op' = "loadError"
          => /\ messages' = messages
             /\ conversationId' = conversationId
             /\ ~isLoadingConversation'
             /\ nloads' = nloads
             /\ Len(pendingLoads') = Len(pendingLoads) - 1]_vars

C14_Witness ==
  /\ op = "loadError"
  /\ Len(messages) = 2
  /\ conversationId = JsString(<<"c", "1">>)
  /\ isStreaming
  /\ ~isLoadingConversation

\* C15: load success hydrates the store.  When a fetch succeeds, the
\* transcript is the fetched message list, message for message in the
\* fetched order, and the conversation id is the fetched conversation's.
C15_LoadSuccessHydrates ==
  [][op' = "loadOk"
       => \E i \in 1..Len(pendingLoads) :
            LET conv == Conversations[pendingLoads[i]]
            IN /\ conv.id = pendingLoads[i]
               /\ conversationId' = JsString(conv.id)
               /\ Len(messages') = Len(conv.messages)
               /\ \A j \in 1..Len(conv.messages) :
                    /\ messages'[j].id = conv.messages[j].id
                    /\ messages'[j].role = conv.messages[j].role
                    /\ messages'[j].content = conv.messages[j].content]_vars

C15_Witness ==
  /\ op = "loadOk"
  /\ Len(requests) = 1
  /\ conversationId = JsString(<<"c", "A">>)
  /\ Len(messages) = 2
  /\ messages[1].id = <<"m", "1">>
  /\ messages[2].content = <<"o", "h">>

\* The bytes from..to of a stream that belong to its data lines: the
\* bytes of blank lines and of lines without the prefix are left out.
\* start is the position of the first byte of Head(evs).
RECURSIVE DataLineBytes(_, _, _, _)
DataLineBytes(evs, start, from, to) ==
  IF evs = <<>> THEN <<>>
  ELSE LET bytes == Utf8Encode(FrameText(Head(evs)))
           lo == IF from > start THEN from ELSE start
           hi == Min(to, start + Len(bytes) - 1)
       IN (IF Head(evs).k \in {"noise", "blank"} \/ lo > hi THEN <<>>
           ELSE SubSeq(bytes, lo - start + 1, hi - start + 1))
          \o DataLineBytes(Tail(evs), start + Len(bytes), from, to)

\* C16: noise lines are ignored.  The state updates a chunk makes are the
\* updates it makes with the bytes of the stream's blank lines and of its
\* lines without the data: prefix taken out: without a fragment among
\* them the transcript is unchanged, without a conversation id among them
\* the conversation id is unchanged; the exchange stays as it is.
C16_NoiseIgnored ==
  [][op' = "chunk"
       => /\ effects'
               = effects
                   \o HandleChunk(
                        DataLineBytes(Streams[stream], 1, pos + 1, pos'),
                        closureConversationId)
          /\ isStreaming' = isStreaming
          /\ pc' = pc]_vars

\* The length of the longest prefix of the first n bytes that ends with a
\* newline: the bytes of the lines received whole.
RECURSIVE CompleteLength(_, _)
CompleteLength(bytes, n) ==
  IF n = 0 THEN 0
  ELSE IF bytes[n] = AsciiTable["\n"] THEN n
  ELSE CompleteLength(bytes, n - 1)

\* C17: only complete lines are emitted.  While a stream is being read,
\* the state updates made so far are the updates of the lines received
\* whole so far: the text after the last newline received is held back.
C17_OnlyCompleteLines ==
  (pc = "reading" /\ stream # 0)
    => Observable(effects)
         = Observable(HandleChunk(
             SubSeq(StreamBytes(stream), 1,
                    CompleteLength(StreamBytes(stream), pos)),
             closureConversationId))

\* C18: the conversation id set by a load is not overwritten by an
\* orphaned exchange.  When an exchange that was submitted with no
\* conversation id is still reading after a load replaced the transcript
\* and set the conversation id, its chunks leave the conversation id as
\* the load set it.
C18_ResetIdKept ==
  [][(/\ op' = "chunk"
      /\ pc = "reading"
      /\ phIdx = 0
      /\ closureConversationId = Undefined
      /\ conversationId \in {JsString(id) : id \in ConvIds})
       => conversationId' = conversationId]_vars

\* C19: message ids are unique within the transcript.
C19_UniqueIds ==
  \A i, j \in 1..Len(messages) :
    i # j => messages[i].id # messages[j].id

\* C20: fragment application touches only the current placeholder.  A
\* step that applies fragments or the error text while the exchange's
\* placeholder is in the transcript keeps the transcript's length, every
\* message's id and role, and the content of every message other than
\* that placeholder.
C20_OnlyPlaceholderTouched ==
  [][(/\ op' \in {"chunk", "readError", "requestError"}
      /\ phIdx # 0)
       => /\ Len(messages') = Len(messages)
          /\ \A i \in 1..Len(messages) :
               /\ messages'[i].id = messages[i].id
               /\ messages'[i].role = messages[i].role
               /\ i # phIdx => messages'[i].content = messages[i].content]_vars

\* C21: causal pairing.  In a transcript built only by submits the
\* messages come in pairs: a user message at every odd position, the
\* assistant message of the same submit right after it.
C21_CausalPairing ==
  nloads = 0
    => /\ Len(messages) = 2 * Len(requests)
       /\ \A i \in 1..Len(messages) :
            messages[i].role = (IF i % 2 = 1 THEN "user" ELSE "assistant")
       /\ \A k \in 1..Len(requests) :
            messages[2 * k - 1].content = requests[k].message

C21_Witness ==
  /\ nloads = 0
  /\ Len(messages) = 4
  /\ pc = "reading"
  /\ messages[2].content # <<>>

\* C22: the optimistic echo precedes the network.  The step that issues a
\* request leaves the user message with the trimmed input and the empty
\* placeholder at the end of the transcript and the session active, with
\* no response received; a rejected request leaves the user message as
\* it is.
C22_OptimisticEcho ==
  /\ [][Len(requests') = Len(requests) + 1
          => /\ Len(messages') = Len(messages) + 2
             /\ SubSeq(messages', 1, Len(messages)) = messages
             /\ messages'[Len(messages) + 1].role = "user"
             /\ messages'[Len(messages) + 1].content = Trim(input)
             /\ messages'[Len(messages) + 2].role = "assistant"
             /\ messages'[Len(messages) + 2].content = <<>>
             /\ isStreaming'
             /\ pc' = "sending"]_vars
  /\ [][(op' = "requestError" /\ userIdx # 0)
          => messages'[userIdx] = messages[userIdx]]_vars

C22_Witness ==
  /\ op = "requestError"
  /\ userIdx = 1
  /\ messages[1].content = <<"h", "i">>
  /\ messages[2].content = ErrorText

\* C23: id and role are immutable.  Every step other than a load that
\* replaces the transcript keeps every message in its place with the id
\* and the role it has.
C23_IdRoleImmutable ==
  [][op' # "loadOk"
       => /\ Len(messages') >= Len(messages)
          /\ \A i \in 1..Len(messages) :
               /\ messages'[i].id = messages[i].id
               /\ messages'[i].role = messages[i].role]_vars

C23_Witness ==
  /\ Len(messages) = 4
  /\ outcome = "failed"
  /\ messages[2].content \notin {<<>>, ErrorText}
  /\ messages[4].content = ErrorText
  /\ messages[2].role = "assistant"

\* C24: assistant content is append-only while streaming.  A chunk leaves
\* the placeholder's content with its previous content as a prefix.
C24_AppendOnlyContent ==
  [][(op' = "chunk" /\ phIdx # 0)
       => /\ Len(messages'[phIdx].content) >= Len(messages[phIdx].content)
          /\ SubSeq(messages'[phIdx].content, 1,
                    Len(messages[phIdx].content))
               = messages[phIdx].content]_vars

C24_Witness ==
  /\ op = "chunk"
  /\ nchunks = 2
  /\ phIdx = 2
  /\ messages[2].content = <<"H", "e", "l", "l", "o">>

\* C25: completion freezes the placeholder.  The end of the stream
\* changes no message, and no step other than a load changes the content
\* of an assistant message of an exchange that has terminated.
C25_CompletionFreezes ==
  /\ [][op' = "streamEnd" => messages' = messages]_vars
  /\ [][op' # "loadOk"
          => \A i \in 1..Len(messages) :
               (messages[i].role = "assistant" /\ (pc = "idle" \/ i # phIdx))
                 => messages'[i].content = messages[i].content]_vars

\* C26: an accepted request without a body stream.  The exchange ends
\* without error: the transcript and the conversation id are unchanged,
\* the placeholder is empty and the session is no longer active.
C26_NoBody ==
  [][op' = "responseNoBody"
       => /\ messages' = messages
          /\ phIdx # 0 => messages'[phIdx].content = <<>>
          /\ conversationId' = conversationId
          /\ ~isStreaming'
          /\ pc' = "idle"
          /\ outcome' = "completed"]_vars

C26_Witness ==
  /\ op = "responseNoBody"
  /\ phIdx = 2
  /\ messages[2].content = <<>>
  /\ ~isStreaming

\* C27: the active-session flag belongs to the exchange.  No step of a
\* load changes isStreaming; while the flag is set a submit changes
\* nothing; once it is clear a non-empty submit is accepted.
C27_FlagBelongsToExchange ==
  /\ [][op' \in {"loadStart", "loadOk", "loadFinally", "loadError"}
          => isStreaming' = isStreaming /\ pc' = pc]_vars
  /\ [][(op' = "handleSubmit" /\ isStreaming)
          => /\ messages' = messages
             /\ requests' = requests
             /\ isStreaming']_vars
  /\ [][(op' = "handleSubmit" /\ ~isStreaming /\ Trim(input) # <<>>)
          => Len(requests') = Len(requests) + 1]_vars
  /\ [](isStreaming <=> pc # "idle")

C27_Witness ==
  /\ op = "handleSubmit"
  /\ pc = "reading"
  /\ isStreaming
  /\ phIdx = 0
  /\ Trim(input) # <<>>
  /\ Len(requests) = 1
  /\ messages[1].id = <<"m", "3">>

\* C28: the latest load wins.  Once the conversation named by the id
\* parameter has been loaded, the success of the last load still in
\* flight leaves the transcript and the conversation id those of that
\* conversation; and the loading flag is false only when no load is in
\* flight.
C28_LatestLoadWins ==
  /\ [][(/\ op' = "loadOk"
          /\ pendingLoads' = <<>>
          /\ searchParamsId \in ConvIds
          /\ conversationId = JsString(searchParamsId))
          => /\ conversationId' = JsString(searchParamsId)
             /\ messages' = LoadedMessages(Conversations[searchParamsId])]_vars
  /\ [](~isLoadingConversation => pendingLoads = <<>>)

\* C29: a delete is applied locally only on success.  When the delete
\* request resolves, the list loses the documents with the id of that
\* request and keeps the others in order; declining, confirming and a
\* failed request leave the list as it is.
C29_DeleteOnSuccessOnly ==
  [][/\ op' = "deleteOk"
          => \E i \in 1..Len(deletes) :
               /\ deletes' = Remove(deletes, i)
               /\ documents'
                    = SelectSeq(documents, LAMBDA d : d.id # deletes[i])
     /\ op' \in {"deleteDeclined", "deleteConfirmed", "deleteError"}
          => documents' = documents]_vars

C29_Witness ==
  /\ op = "deleteOk"
  /\ Len(documents) = 1
  /\ documents[1].id = <<"d", "2">>
  /\ deletes = <<>>

\* C30: the upload-in-progress flag is accurate.  isUploading is true
\* exactly while a handleUpload call is running.
C30_UploadFlagAccurate ==
  isUploading <=> uploads # <<>>
====
